---- MODULE Spec2Model ----
\* pyramid_ldap3: the query cache, the connection manager and the
\* authenticate / user_groups protocol of the Connector, modelled from
\* src/pyramid_ldap3/__init__.py.
EXTENDS Integers, Sequences, FiniteSets, TLC

VARIABLES
    registry,   \* attributes set on config.registry: identifier -> _LDAPQuery
    now,        \* the value time() returns
    accepts,    \* the directory: the (dn, password) pairs a bind is accepted for
    th          \* per request thread: the Connector call in progress, its
                \* position in the code, its locals and its outcome

vars == <<registry, now, accepts, th>>

\* ------------------------------------------------------------------ bounds
MaxTime == 4        \* the clock runs from StartTime to MaxTime
MaxResp == 2        \* longest response the directory returns to a search
MaxLen == 3         \* longest string handed to escape_for_search

\* ------------------------------------------------------------ python values
\* Python's None and a present value, kept apart from every value a
\* variable can hold (an empty list, an empty string).
None == [none |-> TRUE, val |-> <<>>]
Some(v) == [none |-> FALSE, val |-> v]
NoneStr == [none |-> TRUE, val |-> ""]
SomeStr(s) == [none |-> FALSE, val |-> s]

\* truth value of an optional string: None and '' are both false
Truthy(o) == ~o.none /\ o.val # ""

\* ------------------------------------------------------------ input domains
Realms == {NoneStr, SomeStr(""), SomeStr("r1")}
Logins == {"", "a*"}
UserDNs == {"", "d1"}
Passwords == {"", "p"}
EntryDNs == {"", "d1"}
CachePeriods == {0, 2}
\* the clock starts one caching period after the epoch: time() is far from 0,
\* so the first time slice sampled is already greater than last_timeslice
CachingPeriod == CHOOSE p \in CachePeriods : p # 0
StartTime == CachingPeriod

\* a record of a search response: a mapping that may lack the 'dn' field
Entry(dn) == [dn |-> dn, attributes |-> "A:" \o dn]
NoDnRecord == [attributes |-> "ref"]
Records == {Entry(d) : d \in EntryDNs} \cup {NoDnRecord}

RECURSIVE SeqsUpTo(_, _)
SeqsUpTo(S, n) ==
    IF n = 0 THEN {<<>>}
    ELSE LET shorter == SeqsUpTo(S, n - 1)
         IN shorter \cup {Append(s, x) : s \in {t \in shorter : Len(t) = n - 1}, x \in S}

\* what conn.get_response can hand back: None or a list of records
Responses == {None} \cup {Some(s) : s \in SeqsUpTo(Records, MaxResp)}

Credentials == EntryDNs \X (Passwords \ {""})

\* ------------------------------------------------------------ escape_for_search
\* the character U+0000: TLA+ has no literal for it, the form feed, which
\* the model uses for nothing else, stands for it
NUL == "\f"

\* the table without its entry for NUL
_escape_for_search_NoNul(c) ==
    CASE c = "*" -> "\\2A"
      [] c = "(" -> "\\28"
      [] c = ")" -> "\\29"
      [] c = "\\" -> "\\5C"
      [] OTHER -> c

\* _escape_for_search.get(c, c)
_escape_for_search(c) ==
    CASE c = "*" -> "\\2A"
      [] c = "(" -> "\\28"
      [] c = ")" -> "\\29"
      [] c = "\\" -> "\\5C"
      [] c = NUL -> "\\00"
      [] OTHER -> c

RECURSIVE EscapeChars(_)
EscapeChars(s) ==
    IF s = "" THEN "" ELSE _escape_for_search(Head(s)) \o EscapeChars(Tail(s))

escape_for_search(s) == IF s = "" THEN s ELSE EscapeChars(s)

\* the strings escape_for_search is tried on: every string of up to MaxLen
\* characters, each an ordinary character or one of the five of the table
EscapeAlphabet == {"a", "*", "(", ")", "\\", NUL}

RECURSIVE StringsUpTo(_, _)
StringsUpTo(S, n) ==
    IF n = 0 THEN {""}
    ELSE LET shorter == StringsUpTo(S, n - 1)
         IN shorter \cup {s \o c : s \in {x \in shorter : Len(x) = n - 1}, c \in S}

EscapeStrings == StringsUpTo(EscapeAlphabet, MaxLen)

\* ------------------------------------------------------------ identifiers
\* the registry identifier built without the realm
_registry_identifier_NoRealm(base_identifier, realm) == base_identifier

_registry_identifier(base_identifier, realm) ==
    IF Truthy(realm) THEN base_identifier \o "_" \o realm.val ELSE base_identifier

_pool_identifier(base_identifier, realm) ==
    IF Truthy(realm) THEN base_identifier \o "_" \o realm.val ELSE base_identifier

\* ------------------------------------------------------------ _LDAPQuery
\* a template is a sequence of literal pieces and %(name)s placeholders
RECURSIVE Subst(_, _)
Subst(tmpl, kw) ==
    IF tmpl = <<>> THEN ""
    ELSE (IF Head(tmpl) \in DOMAIN kw THEN kw[Head(tmpl)] ELSE Head(tmpl))
         \o Subst(Tail(tmpl), kw)

EmptyCache == [k \in {} |-> <<>>]

LDAPQuery(base_dn, filter_tmpl, scope, attributes, cache_period) ==
    [base_dn |-> base_dn, filter_tmpl |-> filter_tmpl, scope |-> scope,
     attributes |-> attributes, cache_period |-> cache_period,
     last_timeslice |-> 0, cache |-> EmptyCache,
     stored_at |-> EmptyCache,     \* history: the time slice each entry was stored in
     owner |-> NoneStr]            \* history: the realm the query was registered for

_timeslice(period, when) == when - (when % period)

CachePut(cache, key, value) ==
    [k \in DOMAIN cache \cup {key} |-> IF k = key THEN value ELSE cache[k]]

CacheGet(cache, key) == IF key \in DOMAIN cache THEN Some(cache[key]) ELSE None

\* ------------------------------------------------------------ ConnectionManager
ManagerBind == "cn=mgr"
ManagerPasswd == "mpw"

\* ConnectionManager.__init__ with use_pool=True: what connection() reads
ConnectionManager(realm) ==
    [bind |-> ManagerBind, passwd |-> ManagerPasswd, strategy |-> "REUSABLE",
     pool_name |-> _pool_identifier("pyramid_ldap3", realm)]

\* ConnectionManager.connection: the arguments of the ldap3.Connection made
connection(manager, user, password) ==
    IF Truthy(user)
    THEN [user |-> user.val, password |-> password.val,
          client_strategy |-> "SYNC", pool_name |-> ""]
    ELSE [user |-> manager.bind, password |-> manager.passwd,
          client_strategy |-> manager.strategy, pool_name |-> manager.pool_name]

\* auto_bind=True: the connection is bound when it is made; the directory
\* accepts the service identity and the pairs in acc
BindAccepted(conn, acc) ==
    <<conn.user, conn.password>> \in acc \cup {<<ManagerBind, ManagerPasswd>>}

\* one directory operation on a connection, as the call log records it
Ev(op, conn, ok) ==
    [op |-> op, user |-> conn.user, password |-> conn.password,
     pooled |-> conn.client_strategy = "REUSABLE", ok |-> ok]

\* ------------------------------------------------------------ the registry
\* getattr(registry, name, None) and setattr(registry, name, query)
HasAttr(reg, name) == name \in DOMAIN reg
SetAttr(reg, name, value) ==
    [n \in DOMAIN reg \cup {name} |-> IF n = name THEN value ELSE reg[n]]

LoginQuery(cache_period) ==
    LDAPQuery(<<"ou=people">>, <<"(uid=", "%(login)s", ")">>, "LEVEL", None,
              cache_period)
GroupsQuery(cache_period) ==
    LDAPQuery(<<"ou=groups">>, <<"(member=", "%(userdn)s", ")">>, "SUBTREE", None,
              cache_period)

\* ------------------------------------------------------------ a request thread
Threads == {1, 2}

\* history of a completed execute: its key, the time slice it ran in from its
\* start to its return, and the result it returned; or its key and that its
\* backend call failed
NoPrev ==
    [valid |-> FALSE, failed |-> FALSE, key |-> <<"", "">>, slice |-> 0,
     result |-> <<>>]

\* history of the lookup in progress: last_timeslice and the cache as
\* query_cache found them at its comparison
NoBefore == [last |-> 0, cache |-> EmptyCache]

Idle ==
    [pc |-> "idle", op |-> "", realm |-> NoneStr, arg |-> "", password |-> "",
     key |-> <<"", "">>, ts |-> 0, looked |-> FALSE, hit |-> FALSE,
     stamp |-> 0,         \* history: the time slice the entry hit or stored is of
     exc |-> FALSE, resp |-> None, result |-> None,
     ret |-> None, raised |-> "", ops |-> <<>>,
     groups |-> None,     \* groupfinder: what get_groups handed back
     before |-> NoBefore,
     prev |-> NoPrev]     \* history: the execute this thread completed before

\* the call is over: it returned ret, or raised the named exception
Done(rec, ret, raised) == [rec EXCEPT !.pc = "done", !.ret = ret, !.raised = raised]

\* Connector.__init__
Connector(realm) ==
    [manager |-> ConnectionManager(realm), realm |-> realm,
     login_qry_identif |-> _registry_identifier("ldap_login_query", realm),
     group_qry_identif |-> _registry_identifier("ldap_groups_query", realm)]

\* the registry attribute the call in progress took its query from
QueryIdent(rec) ==
    IF rec.op = "authenticate" THEN Connector(rec.realm).login_qry_identif
    ELSE Connector(rec.realm).group_qry_identif

\* ------------------------------------------------------------ _LDAPQuery.execute
CacheKey(q, kw) == <<Subst(q.base_dn, kw), Subst(q.filter_tmpl, kw)>>

\* lines 78-82 and 65-66: the key, and with caching on the sampled time slice
EnterExecute(rec, q, kw, t) ==
    IF q.cache_period # 0
    THEN [rec EXCEPT !.key = CacheKey(q, kw), !.pc = "qc_cmp",
                     !.ts = _timeslice(q.cache_period, t)]
    ELSE [rec EXCEPT !.key = CacheKey(q, kw), !.pc = "connect"]

\* the mapping building its list from the last record to the first
RECURSIVE MapRecords_Reversed(_)
MapRecords_Reversed(recs) ==
    IF recs = <<>> THEN <<>>
    ELSE MapRecords_Reversed(Tail(recs))
         \o (IF "dn" \in DOMAIN Head(recs)
             THEN << <<Head(recs).dn, Head(recs).attributes>> >> ELSE <<>>)

\* lines 92-93: [(r['dn'], r['attributes']) for r in result if 'dn' in r]
RECURSIVE MapRecords(_)
MapRecords(recs) ==
    IF recs = <<>> THEN <<>>
    ELSE (IF "dn" \in DOMAIN Head(recs)
          THEN << <<Head(recs).dn, Head(recs).attributes>> >> ELSE <<>>)
         \o MapRecords(Tail(recs))

\* execute storing the mapped result whatever the cache period is
MapAndStore_StoreAlways(q, cache_key, resp, t) ==
    IF resp.none
    THEN [q |-> q, result |-> <<>>]
    ELSE LET result == MapRecords(resp.val)
         IN [q |-> [q EXCEPT !.cache = CachePut(q.cache, cache_key, result),
                             !.stored_at = CachePut(q.stored_at, cache_key, t)],
             result |-> result]

\* lines 89-95: map the response and store the mapped result
MapAndStore(q, cache_key, resp, t) ==
    IF resp.none
    THEN [q |-> q, result |-> <<>>]
    ELSE LET result == MapRecords(resp.val)
         IN [q |-> IF q.cache_period # 0
                   THEN [q EXCEPT !.cache = CachePut(q.cache, cache_key, result),
                                  !.stored_at = CachePut(q.stored_at, cache_key,
                                                       _timeslice(q.cache_period, t))]
                   ELSE q,
             result |-> result]

\* ------------------------------------------------------------ Connector
\* the keyword arguments authenticate and user_groups pass to execute
LoginKw(login, password) ==
    [k \in {"%(login)s", "%(password)s"} |->
        IF k = "%(login)s" THEN escape_for_search(login)
        ELSE escape_for_search(password)]
GroupsKw(userdn) == [k \in {"%(userdn)s"} |-> escape_for_search(userdn)]

\* authenticate without the test of the empty password
authenticate_NoEmptyCheck(self, reg, login, password, t) ==
    LET rec == [Idle EXCEPT !.op = "authenticate", !.realm = self.realm,
                            !.arg = login, !.password = password]
    IN IF ~HasAttr(reg, self.login_qry_identif)
       THEN Done(rec, None, "ConfigurationError")
       ELSE EnterExecute(rec, reg[self.login_qry_identif],
                         LoginKw(login, password), t)

\* authenticate, lines 223-233: up to the call of search.execute
authenticate(self, reg, login, password, t) ==
    LET rec == [Idle EXCEPT !.op = "authenticate", !.realm = self.realm,
                            !.arg = login, !.password = password]
    IN IF password = ""
       THEN Done(rec, None, "")
       ELSE IF ~HasAttr(reg, self.login_qry_identif)
       THEN Done(rec, None, "ConfigurationError")
       ELSE EnterExecute(rec, reg[self.login_qry_identif],
                         LoginKw(login, password), t)

\* authenticate taking the first of several entries
authenticate_result_First(rec, result) ==
    IF Len(result) = 0
    THEN Done([rec EXCEPT !.result = Some(result)], None, "")
    ELSE [rec EXCEPT !.result = Some(result), !.pc = "bind"]

\* authenticate, lines 235-238: search.execute returned result
authenticate_result(rec, result) ==
    IF Len(result) = 0 \/ Len(result) > 1
    THEN Done([rec EXCEPT !.result = Some(result)], None, "")
    ELSE [rec EXCEPT !.result = Some(result), !.pc = "bind"]

\* authenticate, line 231: search.execute raised LDAPException
authenticate_error(rec) == Done(rec, None, "LDAPException")

\* user_groups answering None when no groups query is registered
user_groups_NoConfigError(self, reg, userdn, t) ==
    LET rec == [Idle EXCEPT !.op = "user_groups", !.realm = self.realm,
                            !.arg = userdn]
    IN IF ~HasAttr(reg, self.group_qry_identif)
       THEN Done(rec, None, "")
       ELSE EnterExecute(rec, reg[self.group_qry_identif], GroupsKw(userdn), t)

\* user_groups, lines 266-272: up to the call of search.execute
user_groups(self, reg, userdn, t) ==
    LET rec == [Idle EXCEPT !.op = "user_groups", !.realm = self.realm,
                            !.arg = userdn]
    IN IF ~HasAttr(reg, self.group_qry_identif)
       THEN Done(rec, None, "ConfigurationError")
       ELSE EnterExecute(rec, reg[self.group_qry_identif], GroupsKw(userdn), t)

\* user_groups, line 279: search.execute returned result
user_groups_result(rec, result) ==
    Done([rec EXCEPT !.result = Some(result)], Some(result), "")

\* user_groups without its except clause
user_groups_error_Propagate(rec) == Done(rec, None, "LDAPException")

\* user_groups, lines 273-277: search.execute raised LDAPException
user_groups_error(rec) == Done(rec, None, "")

\* groupfinder answering None for a user without groups
groupfinder_NoneForEmpty(groups) ==
    IF groups.none \/ groups.val = <<>> THEN None
    ELSE Some([i \in DOMAIN groups.val |-> groups.val[i][1]])

\* groupfinder, lines 457-459: `if groups:` is false for None and for []
groupfinder(groups) ==
    IF groups.none \/ groups.val = <<>> THEN groups
    ELSE Some([i \in DOMAIN groups.val |-> groups.val[i][1]])

\* execute hands its result, or its exception, back to the method that called it
Returned(rec, result) ==
    IF rec.op = "authenticate" THEN authenticate_result(rec, result)
    ELSE user_groups_result(rec, result)
Raised(rec) ==
    IF rec.op = "authenticate" THEN authenticate_error(rec)
    ELSE user_groups_error(rec)

\* ------------------------------------------------------------ the state machine
Q(t) == registry[QueryIdent(th[t])]
PutQ(t, q) == [registry EXCEPT ![QueryIdent(th[t])] = q]
Log(rec, ev) == [rec EXCEPT !.ops = Append(rec.ops, ev)]
PooledConn(t) == connection(Connector(th[t].realm).manager, NoneStr, NoneStr)

\* configuration runs before requests are served, never during one
Configuring == \A t \in Threads : th[t].pc = "idle"

\* ldap_set_login_query: the register() callback of the configurator action
ldap_set_login_query(realms, periods) ==
    \E realm \in realms, cache_period \in periods :
        /\ Configuring
        /\ registry' = SetAttr(registry,
                               _registry_identifier("ldap_login_query", realm),
                               [LoginQuery(cache_period) EXCEPT !.owner = realm])
        /\ UNCHANGED <<now, accepts, th>>

\* ldap_set_groups_query
ldap_set_groups_query(realms, periods) ==
    \E realm \in realms, cache_period \in periods :
        /\ Configuring
        /\ registry' = SetAttr(registry,
                               _registry_identifier("ldap_groups_query", realm),
                               [GroupsQuery(cache_period) EXCEPT !.owner = realm])
        /\ UNCHANGED <<now, accepts, th>>

\* a request calls Connector.authenticate
CallAuthenticate(t, realms, logins, passwords) ==
    /\ th[t].pc = "idle"
    /\ \E realm \in realms, login \in logins, password \in passwords :
           th' = [th EXCEPT ![t] =
                    [authenticate(Connector(realm), registry, login, password, now)
                        EXCEPT !.prev = th[t].prev]]
    /\ UNCHANGED <<registry, now, accepts>>

\* a request calls Connector.user_groups
CallUserGroups(t, realms, userdns) ==
    /\ th[t].pc = "idle"
    /\ \E realm \in realms, userdn \in userdns :
           th' = [th EXCEPT ![t] =
                    [user_groups(Connector(realm), registry, userdn, now)
                        EXCEPT !.prev = th[t].prev]]
    /\ UNCHANGED <<registry, now, accepts>>

\* query_cache flushing whenever the sampled slice differs from last_timeslice
QcCompare_NotEqual(t) ==
    /\ th[t].pc = "qc_cmp"
    /\ th' = [th EXCEPT ![t].pc = IF th[t].ts # Q(t).last_timeslice
                                  THEN "qc_clear" ELSE "qc_get",
                        ![t].before = [last |-> Q(t).last_timeslice,
                                       cache |-> Q(t).cache]]
    /\ UNCHANGED <<registry, now, accepts>>

\* query_cache, line 68: compare the sampled slice with last_timeslice
QcCompare(t) ==
    /\ th[t].pc = "qc_cmp"
    /\ th' = [th EXCEPT ![t].pc = IF th[t].ts > Q(t).last_timeslice
                                  THEN "qc_clear" ELSE "qc_get",
                        ![t].before = [last |-> Q(t).last_timeslice,
                                       cache |-> Q(t).cache]]
    /\ UNCHANGED <<registry, now, accepts>>

\* query_cache advancing the time slice without dropping the entries
QcClear_Keep(t) ==
    /\ th[t].pc = "qc_clear"
    /\ th' = [th EXCEPT ![t].pc = "qc_set"]
    /\ UNCHANGED <<registry, now, accepts>>

\* query_cache dropping the entry of the key it looks up, and no other
QcClear_OnlyKey(t) ==
    /\ th[t].pc = "qc_clear"
    /\ registry' = PutQ(t, [Q(t) EXCEPT
                               !.cache = [k \in DOMAIN Q(t).cache \ {th[t].key}
                                             |-> Q(t).cache[k]],
                               !.stored_at = [k \in DOMAIN Q(t).cache \ {th[t].key}
                                                 |-> Q(t).stored_at[k]]])
    /\ th' = [th EXCEPT ![t].pc = "qc_set"]
    /\ UNCHANGED <<now, accepts>>

\* query_cache, line 72: self.cache = {}
QcClear(t) ==
    /\ th[t].pc = "qc_clear"
    /\ registry' = PutQ(t, [Q(t) EXCEPT !.cache = EmptyCache,
                                        !.stored_at = EmptyCache])
    /\ th' = [th EXCEPT ![t].pc = "qc_set"]
    /\ UNCHANGED <<now, accepts>>

\* query_cache, line 73: self.last_timeslice = ts
QcSetSlice(t) ==
    /\ th[t].pc = "qc_set"
    /\ registry' = PutQ(t, [Q(t) EXCEPT !.last_timeslice = th[t].ts])
    /\ th' = [th EXCEPT ![t].pc = "qc_get"]
    /\ UNCHANGED <<now, accepts>>

\* query_cache, line 75, and execute, lines 82-83 and 96-101
QcGet(t) ==
    /\ th[t].pc = "qc_get"
    /\ LET got == CacheGet(Q(t).cache, th[t].key)
           rec == [th[t] EXCEPT !.looked = TRUE, !.before = NoBefore]
       IN th' = [th EXCEPT ![t] =
                    IF got.none THEN [rec EXCEPT !.pc = "connect"]
                    ELSE Returned([rec EXCEPT !.hit = TRUE,
                                              !.stamp = Q(t).stored_at[th[t].key]],
                                  got.val)]
    /\ UNCHANGED <<registry, now, accepts>>

\* execute, line 84: manager.connection() binds the pooled connection
Connect(t, faults) ==
    /\ th[t].pc = "connect"
    /\ \E fault \in faults :
          LET conn == PooledConn(t)
              ok == ~fault /\ BindAccepted(conn, accepts)
              rec == Log(th[t], Ev("connect", conn, ok))
          IN th' = [th EXCEPT ![t] =
                       IF ok THEN [rec EXCEPT !.pc = "search"] ELSE Raised(rec)]
    /\ UNCHANGED <<registry, now, accepts>>

\* execute, lines 85-87: conn.search
Search(t, faults) ==
    /\ th[t].pc = "search"
    /\ \E fault \in faults :
          LET rec == Log(th[t], Ev("search", PooledConn(t), ~fault))
          IN th' = [th EXCEPT ![t] =
                       IF fault THEN [rec EXCEPT !.pc = "release", !.exc = TRUE]
                       ELSE [rec EXCEPT !.pc = "response"]]
    /\ UNCHANGED <<registry, now, accepts>>

\* execute, line 88: conn.get_response
GetResponse(t, faults, responses) ==
    /\ th[t].pc = "response"
    /\ \E fault \in faults :
          LET rec == Log(th[t], Ev("get_response", PooledConn(t), ~fault))
          IN IF fault
             THEN th' = [th EXCEPT ![t] = [rec EXCEPT !.pc = "release", !.exc = TRUE]]
             ELSE \E resp \in responses :
                     th' = [th EXCEPT ![t] = [rec EXCEPT !.pc = "release",
                                                          !.resp = resp]]
    /\ UNCHANGED <<registry, now, accepts>>

\* execute storing the mapped response before it leaves the with block
Release_StoreFirst(t, faults) ==
    /\ th[t].pc = "release"
    /\ \E fault \in faults :
          LET rec == Log(th[t], Ev("release", PooledConn(t), ~fault))
              ms == MapAndStore(Q(t), th[t].key, th[t].resp, now)
          IN IF th[t].exc
             THEN /\ th' = [th EXCEPT ![t] = Raised(rec)]
                  /\ UNCHANGED registry
             ELSE /\ th' = [th EXCEPT ![t] =
                              IF fault THEN Raised(rec)
                              ELSE Returned([rec EXCEPT !.stamp =
                                                 IF ms.q # Q(t)
                                                 THEN ms.q.stored_at[th[t].key]
                                                 ELSE rec.stamp],
                                            ms.result)]
                  /\ registry' = PutQ(t, ms.q)
    /\ UNCHANGED <<now, accepts>>

\* execute, lines 84 and 89-101: the with block is left and the connection
\* released; then the response is mapped and stored
Release(t, faults) ==
    /\ th[t].pc = "release"
    /\ \E fault \in faults :
          LET rec == Log(th[t], Ev("release", PooledConn(t), ~fault))
              ms == MapAndStore(Q(t), th[t].key, th[t].resp, now)
          IN IF fault \/ th[t].exc
             THEN /\ th' = [th EXCEPT ![t] = Raised(rec)]
                  /\ UNCHANGED registry
             ELSE /\ th' = [th EXCEPT ![t] =
                              Returned([rec EXCEPT !.stamp =
                                            IF ms.q # Q(t)
                                            THEN ms.q.stored_at[th[t].key]
                                            ELSE rec.stamp],
                                       ms.result)]
                  /\ registry' = PutQ(t, ms.q)
    /\ UNCHANGED <<now, accepts>>

\* authenticate, lines 240-246: self.manager.connection(login_dn, password)
Bind(t, faults) ==
    /\ th[t].pc = "bind"
    /\ \E fault \in faults :
          LET result == th[t].result.val[1]
              login_dn == result[1]
              conn == connection(Connector(th[t].realm).manager,
                                 SomeStr(login_dn), SomeStr(th[t].password))
              ok == ~fault /\ BindAccepted(conn, accepts)
              rec == Log(th[t], Ev("bind", conn, ok))
          IN th' = [th EXCEPT ![t] =
                       IF ok THEN [rec EXCEPT !.pc = "unbind"]
                       ELSE Done(rec, None, "")]
    /\ UNCHANGED <<registry, now, accepts>>

\* authenticate, lines 241-248: .unbind(), then return result
Unbind(t, faults) ==
    /\ th[t].pc = "unbind"
    /\ \E fault \in faults :
          LET result == th[t].result.val[1]
              conn == connection(Connector(th[t].realm).manager,
                                 SomeStr(result[1]), SomeStr(th[t].password))
              rec == Log(th[t], Ev("unbind", conn, ~fault))
          IN th' = [th EXCEPT ![t] =
                       IF fault THEN Done(rec, None, "")
                       ELSE Done(rec, Some(result), "")]
    /\ UNCHANGED <<registry, now, accepts>>

\* groupfinder, lines 456-459: get_groups, that is user_groups of the default
\* connector, has handed back groups (or raised); groupfinder maps them
GroupfinderReturn(t) ==
    /\ th[t].pc = "done"
    /\ th[t].op = "user_groups"
    /\ ~Truthy(th[t].realm)
    /\ th' = [th EXCEPT ![t] =
                 [th[t] EXCEPT !.op = "groupfinder",
                               !.groups = th[t].ret,
                               !.ret = IF th[t].raised = ""
                                       THEN groupfinder(th[t].ret)
                                       ELSE th[t].ret]]
    /\ UNCHANGED <<registry, now, accepts>>

\* the caller has the outcome; the thread takes the next request
Return(t) ==
    /\ th[t].pc = "done"
    /\ th' = [th EXCEPT ![t] = Idle]
    /\ UNCHANGED <<registry, now, accepts>>

\* the same, keeping the history of the execute just completed: valid when
\* it returned without error from a caching query and the whole call, from
\* its sampling of the time to its return, fell into one time slice
ReturnRemember(t) ==
    /\ th[t].pc = "done"
    /\ th' = [th EXCEPT ![t] =
                 [Idle EXCEPT !.prev =
                     IF /\ ~th[t].result.none
                        /\ Q(t).cache_period # 0
                        /\ _timeslice(Q(t).cache_period, now) = th[t].ts
                     THEN [NoPrev EXCEPT !.valid = TRUE, !.key = th[t].key,
                                         !.slice = th[t].ts,
                                         !.result = th[t].result.val]
                     ELSE IF th[t].result.none /\ th[t].ops # <<>>
                     THEN [NoPrev EXCEPT !.failed = TRUE, !.key = th[t].key]
                     ELSE NoPrev]]
    /\ UNCHANGED <<registry, now, accepts>>

\* time passes
Tick ==
    /\ now < MaxTime
    /\ now' = now + 1
    /\ UNCHANGED <<registry, accepts, th>>

\* the directory's administrators change which credentials it accepts
DirectoryUpdate ==
    /\ accepts' \in SUBSET Credentials
    /\ accepts' # accepts
    /\ UNCHANGED <<registry, now, th>>

\* ---- Spec: one request at a time, Connectors of every realm, queries
\* registered with the default cache_period of 0
Init ==
    /\ registry = [n \in {} |-> 0]
    /\ now = StartTime
    /\ accepts \in SUBSET Credentials
    /\ th = [t \in Threads |-> Idle]

Next ==
    \/ ldap_set_login_query(Realms, {0})
    \/ ldap_set_groups_query(Realms, {0})
    \/ CallAuthenticate(1, Realms, Logins, Passwords)
    \/ CallUserGroups(1, Realms, UserDNs)
    \/ Connect(1, BOOLEAN)
    \/ Search(1, BOOLEAN)
    \/ GetResponse(1, BOOLEAN, Responses)
    \/ Release(1, BOOLEAN)
    \/ Bind(1, BOOLEAN)
    \/ Unbind(1, BOOLEAN)
    \/ GroupfinderReturn(1)
    \/ Return(1)
    \/ Tick
    \/ DirectoryUpdate

Spec == Init /\ [][Next]_vars

\* ---- SpecCache: one request at a time on the default realm's groups query,
\* registered with or without caching
InitCache ==
    /\ registry \in {SetAttr([n \in {} |-> 0],
                             _registry_identifier("ldap_groups_query", NoneStr),
                             GroupsQuery(p)) : p \in CachePeriods}
    /\ now = StartTime
    /\ accepts = {}
    /\ th = [t \in Threads |-> Idle]

NextCache ==
    \/ CallUserGroups(1, {NoneStr}, UserDNs)
    \/ QcCompare(1)
    \/ QcClear(1)
    \/ QcSetSlice(1)
    \/ QcGet(1)
    \/ Connect(1, BOOLEAN)
    \/ Search(1, BOOLEAN)
    \/ GetResponse(1, BOOLEAN, Responses)
    \/ Release(1, BOOLEAN)
    \/ ReturnRemember(1)
    \/ Tick

SpecCache == InitCache /\ [][NextCache]_vars

\* ---- SpecAuth: one request at a time authenticating on the default realm,
\* the login query registered with or without caching
NextAuth ==
    \/ ldap_set_login_query({NoneStr}, CachePeriods)
    \/ CallAuthenticate(1, {NoneStr}, Logins, Passwords)
    \/ QcCompare(1)
    \/ QcClear(1)
    \/ QcSetSlice(1)
    \/ QcGet(1)
    \/ Connect(1, BOOLEAN)
    \/ Search(1, BOOLEAN)
    \/ GetResponse(1, BOOLEAN, Responses)
    \/ Release(1, BOOLEAN)
    \/ Bind(1, BOOLEAN)
    \/ Unbind(1, BOOLEAN)
    \/ Return(1)
    \/ Tick
    \/ DirectoryUpdate

SpecAuth == Init /\ [][NextAuth]_vars

\* ---- SpecConc: two requests at once on one cached groups query
ConcResponses == {Some(<<>>), Some(<<Entry("d1")>>)}

InitConc ==
    /\ registry = SetAttr([n \in {} |-> 0],
                          _registry_identifier("ldap_groups_query", NoneStr),
                          GroupsQuery(CachingPeriod))
    /\ now = StartTime
    /\ accepts = {}
    /\ th = [t \in Threads |-> Idle]

NextConc ==
    \E t \in Threads :
        \/ CallUserGroups(t, {NoneStr}, UserDNs)
        \/ QcCompare(t)
        \/ QcClear(t)
        \/ QcSetSlice(t)
        \/ QcGet(t)
        \/ Connect(t, {FALSE})
        \/ Search(t, {FALSE})
        \/ GetResponse(t, {FALSE}, ConcResponses)
        \/ Release(t, {FALSE})
        \/ Return(t)
        \/ Tick

SpecConc == InitConc /\ [][NextConc]_vars

\* ---- SpecEscape: user_groups on the default realm for every DN of
\* EscapeStrings, against a directory that answers every search with no entry
InitEscape ==
    /\ registry = SetAttr([n \in {} |-> 0],
                          _registry_identifier("ldap_groups_query", NoneStr),
                          GroupsQuery(0))
    /\ now = StartTime
    /\ accepts = {}
    /\ th = [t \in Threads |-> Idle]

NextEscape ==
    \/ CallUserGroups(1, {NoneStr}, EscapeStrings)
    \/ Connect(1, {FALSE})
    \/ Search(1, {FALSE})
    \/ GetResponse(1, {FALSE}, {Some(<<>>)})
    \/ Release(1, {FALSE})
    \/ Return(1)

SpecEscape == InitEscape /\ [][NextEscape]_vars

\* ---- SpecRealm: one request at a time on the Connectors of every realm,
\* login and groups queries registered with caching, a directory that
\* answers every search with one entry and accepts its password
InitRealm ==
    /\ registry = [n \in {} |-> 0]
    /\ now = StartTime
    /\ accepts = {<<"d1", "p">>}
    /\ th = [t \in Threads |-> Idle]

NextRealm ==
    \/ ldap_set_login_query(Realms, {CachingPeriod})
    \/ ldap_set_groups_query(Realms, {CachingPeriod})
    \/ CallAuthenticate(1, Realms, {"a*"}, {"p"})
    \/ CallUserGroups(1, Realms, {"d1"})
    \/ QcCompare(1)
    \/ QcClear(1)
    \/ QcSetSlice(1)
    \/ QcGet(1)
    \/ Connect(1, {FALSE})
    \/ Search(1, {FALSE})
    \/ GetResponse(1, {FALSE}, {Some(<<Entry("d1")>>)})
    \/ Release(1, {FALSE})
    \/ Bind(1, {FALSE})
    \/ Unbind(1, {FALSE})
    \/ Return(1)
    \/ Tick

SpecRealm == InitRealm /\ [][NextRealm]_vars

\* ------------------------------------------------------------ properties
Registered(rec) == HasAttr(registry, QueryIdent(rec))
NoBackend(rec) == rec.ops = <<>> /\ ~rec.looked
Failed(rec) == \E i \in DOMAIN rec.ops : ~rec.ops[i].ok
BindSteps(rec) == {i \in DOMAIN rec.ops : rec.ops[i].op \in {"bind", "unbind"}}

\* C1: authenticate(login, "") returns None for every login and every state
\* of the registry, the cache and the directory, without a login search, a
\* cache lookup or a connection.
C1_EmptyPasswordNoMatch ==
    \A t \in Threads :
        (th[t].op = "authenticate" /\ th[t].password = "")
        => /\ th[t].pc = "done"
           /\ th[t].ret.none
           /\ th[t].raised = ""
           /\ NoBackend(th[t])

\* an empty password is turned down although the login query is registered,
\* its cache holds the entry of this login and the directory accepts binds
C1_Witness ==
    \E t \in Threads :
        /\ th[t].pc = "done" /\ th[t].op = "authenticate"
        /\ th[t].password = "" /\ th[t].arg # ""
        /\ Registered(th[t])
        /\ CacheKey(Q(t), LoginKw(th[t].arg, th[t].password)) \in DOMAIN Q(t).cache
        /\ accepts # {}

\* C2: whenever authenticate returns (dn, attrs), the credential check of that
\* call was a bind of a fresh, unpooled connection as that dn with the
\* supplied password, never the pooled connection of the service identity.
C2_DirectBindChecked ==
    \A t \in Threads :
        (th[t].pc = "done" /\ th[t].op = "authenticate" /\ ~th[t].ret.none)
        => /\ \E i \in DOMAIN th[t].ops :
                 /\ th[t].ops[i].op = "bind" /\ th[t].ops[i].ok
                 /\ th[t].ops[i].user = th[t].ret.val[1]
                 /\ th[t].ops[i].password = th[t].password
           /\ \A i \in BindSteps(th[t]) : ~th[t].ops[i].pooled

\* C3: when the login query yields no entry or several, authenticate returns
\* None and attempts no direct bind, also when one of the several entries
\* would accept the supplied password.
C3_NotUniqueNoMatch ==
    \A t \in Threads :
        (th[t].op = "authenticate" /\ ~th[t].result.none
            /\ Len(th[t].result.val) # 1)
        => /\ th[t].pc = "done"
           /\ th[t].ret.none
           /\ th[t].raised = ""
           /\ BindSteps(th[t]) = {}

\* two entries matched and the directory accepts the password for one of them
C3_Witness ==
    \E t \in Threads :
        /\ th[t].pc = "done" /\ th[t].op = "authenticate"
        /\ ~th[t].result.none /\ Len(th[t].result.val) = 2
        /\ \E i \in 1..2 : <<th[t].result.val[i][1], th[t].password>> \in accepts

\* C4: when the login query yields exactly one entry D and the directory
\* rejects a bind as D with the supplied password, authenticate returns None
\* and raises nothing.
C4_RejectedBindNoMatch ==
    [][\A t \in Threads :
          (/\ th[t].pc = "bind"
           /\ th'[t].pc # "bind"
           /\ <<th[t].result.val[1][1], th[t].password>> \notin accepts)
          => /\ th'[t].pc = "done"
             /\ th'[t].ret.none
             /\ th'[t].raised = ""]_vars

\* C5: when the login query yields exactly one entry (D, attrs) and the
\* directory accepts the direct bind as D with the supplied password,
\* authenticate returns (D, attrs), whatever the release of the connection does.
C5_AcceptedBindMatches ==
    \A t \in Threads :
        (/\ th[t].pc = "done" /\ th[t].op = "authenticate"
         /\ \E i \in DOMAIN th[t].ops :
               /\ th[t].ops[i].op = "bind" /\ th[t].ops[i].ok
               /\ ~th[t].ops[i].pooled
               /\ th[t].ops[i].user = th[t].result.val[1][1]
               /\ th[t].ops[i].password = th[t].password)
        => /\ ~th[t].ret.none
           /\ th[t].ret.val = th[t].result.val[1]

\* C6: no call of authenticate or user_groups lets an LDAPException reach
\* its caller, whichever directory step of the call fails.
C6_NoLDAPExceptionEscapes ==
    \A t \in Threads : th[t].raised # "LDAPException"

\* C7: when the groups query is registered and its backend call (connection,
\* search, response) fails, user_groups returns None and raises nothing.
C7_GroupsFailureIsNone ==
    \A t \in Threads :
        (th[t].pc = "done" /\ th[t].op = "user_groups" /\ Failed(th[t]))
        => (th[t].ret.none /\ th[t].raised = "")

\* the response retrieval of a groups search failed
C7_Witness ==
    \E t \in Threads :
        /\ th[t].pc = "done" /\ th[t].op = "user_groups"
        /\ \E i \in DOMAIN th[t].ops :
              th[t].ops[i].op = "get_response" /\ ~th[t].ops[i].ok

\* C8 as stated: for every realm and every argument, authenticate without a
\* registered login query and user_groups without a registered groups query
\* raise ConfigurationError and perform no backend operation.
C8_UnregisteredRaises ==
    \A t \in Threads :
        (th[t].pc # "idle" /\ ~Registered(th[t]))
        => /\ th[t].pc = "done"
           /\ th[t].raised = "ConfigurationError"
           /\ NoBackend(th[t])

\* C8 amended: the same for user_groups and for authenticate with a
\* password that is not empty.
C8_UnregisteredRaisesNonEmpty ==
    \A t \in Threads :
        (/\ th[t].pc # "idle" /\ ~Registered(th[t])
         /\ (th[t].op = "authenticate" => th[t].password # ""))
        => /\ th[t].pc = "done"
           /\ th[t].raised = "ConfigurationError"
           /\ NoBackend(th[t])

\* authenticate on the realm r1 raised while only the default realm's login
\* query is registered
C8_Witness ==
    \E t \in Threads :
        /\ th[t].pc = "done" /\ th[t].op = "authenticate"
        /\ th[t].realm = SomeStr("r1") /\ th[t].password # ""
        /\ th[t].raised = "ConfigurationError"
        /\ HasAttr(registry, _registry_identifier("ldap_login_query", NoneStr))

\* C9: with caching on, when an execute returns without error within the time
\* slice it started in, its result is in the cache under its key; and an
\* execute of the same key started after it in the same slice returns that
\* result without a backend search; for every response, also a null one.
C9_CachedWithinSlice ==
    \A t \in Threads :
        (/\ th[t].pc = "done" /\ ~th[t].result.none
         /\ Q(t).cache_period # 0)
        => /\ (_timeslice(Q(t).cache_period, now) = th[t].ts)
                 => /\ th[t].key \in DOMAIN Q(t).cache
                    /\ Q(t).cache[th[t].key] = th[t].result.val
           /\ (th[t].prev.valid /\ th[t].prev.key = th[t].key
                  /\ th[t].prev.slice = th[t].ts)
                 => /\ th[t].hit
                    /\ th[t].ops = <<>>
                    /\ th[t].result.val = th[t].prev.result

\* C10: with a clock that never goes back and concurrent execute calls, no
\* cache lookup returns an entry stored in a time slice earlier than the
\* slice of the time the lookup sampled.
C10_NoHitFromEarlierSlice ==
    \A t \in Threads : th[t].hit => th[t].stamp >= th[t].ts

\* one call stored an entry, and a lookup of the same key that sampled a later
\* slice missed
C10_Witness ==
    \E t1, t2 \in Threads :
        /\ t1 # t2
        /\ th[t1].pc = "done" /\ ~th[t1].hit /\ ~th[t1].result.none
        /\ ~th[t1].resp.none
        /\ th[t2].key = th[t1].key
        /\ th[t2].looked /\ ~th[t2].hit
        /\ th[t2].ts > th[t1].stamp

\* the call got as far as execute: its cache key is computed
Entered(rec) == rec.key # Idle.key

\* C11: a query whose cache_period is 0 keeps an empty cache and its initial
\* last_timeslice after any sequence of execute calls, and every execute of it
\* goes to the backend: no lookup, no hit, a connection first and a search
\* before any result.
C11_PeriodZeroNeverCaches ==
    /\ \A n \in DOMAIN registry :
          registry[n].cache_period = 0
          => (DOMAIN registry[n].cache = {} /\ registry[n].last_timeslice = 0)
    /\ \A t \in Threads :
          (Entered(th[t]) /\ Q(t).cache_period = 0)
          => /\ ~th[t].looked
             /\ ~th[t].hit
             /\ (th[t].pc = "done")
                   => (th[t].ops # <<>> /\ th[t].ops[1].op = "connect")
             /\ (~th[t].result.none)
                   => \E i \in DOMAIN th[t].ops :
                         th[t].ops[i].op = "search" /\ th[t].ops[i].ok

\* an execute of a query without caching returned entries a caching query
\* would have stored
C11_Witness ==
    \E t \in Threads :
        /\ th[t].pc = "done" /\ Entered(th[t])
        /\ Q(t).cache_period = 0
        /\ ~th[t].result.none /\ th[t].result.val # <<>>

\* C12: groupfinder returns None when user_groups returned None, and otherwise
\* the first components of the pairs user_groups returned: as many, in the
\* same order, also for the empty result.
C12_GroupfinderGroupDNs ==
    \A t \in Threads :
        (th[t].op = "groupfinder" /\ th[t].raised = "")
        => IF th[t].groups.none
           THEN th[t].ret.none
           ELSE /\ ~th[t].ret.none
                /\ Len(th[t].ret.val) = Len(th[t].groups.val)
                /\ \A i \in 1..Len(th[t].groups.val) :
                      th[t].ret.val[i] = th[t].groups.val[i][1]

\* groupfinder mapped two groups with different DNs
C12_Witness ==
    \E t \in Threads :
        /\ th[t].op = "groupfinder" /\ ~th[t].groups.none
        /\ Len(th[t].groups.val) = 2
        /\ th[t].groups.val[1][1] # th[t].groups.val[2][1]
        /\ ~th[t].ret.none

\* the five characters of the table, and the replacement the table gives
Specials == {"*", "(", ")", "\\", NUL}
HasSpecial(s) == \E i \in 1..Len(s) : SubSeq(s, i, i) \in Specials

RECURSIVE Replaced(_)
Replaced(s) ==
    IF s = "" THEN ""
    ELSE (IF Head(s) = "*" THEN "\\2A"
          ELSE IF Head(s) = "(" THEN "\\28"
          ELSE IF Head(s) = ")" THEN "\\29"
          ELSE IF Head(s) = "\\" THEN "\\5C"
          ELSE IF Head(s) = NUL THEN "\\00"
          ELSE Head(s)) \o Replaced(Tail(s))

\* out holds none of the five characters raw: every backslash in it starts
\* one of the five escapes, and no other character of it is one of the five
RECURSIVE NoRaw(_)
NoRaw(out) ==
    IF out = "" THEN TRUE
    ELSE IF Head(out) = "\\"
    THEN /\ Len(out) >= Len("\\2A")
         /\ SubSeq(out, Len("\\") + 1, Len("\\2A")) \in {"2A", "28", "29", "5C", "00"}
         /\ NoRaw(SubSeq(out, Len("\\2A") + 1, Len(out)))
    ELSE Head(out) \notin Specials /\ NoRaw(Tail(out))

\* the escaped DN user_groups put between "(member=" and ")" in its filter
EscapedArg(rec) ==
    SubSeq(rec.key[2], Len("(member=") + 1, Len(rec.key[2]) - Len(")"))

\* C13: for every string that holds one of * ( ) \ NUL, escape_for_search
\* gives the string with each of these characters replaced as the table
\* says and every other character kept, and none of the five is left raw.
C13_EscapeReplacesSpecials ==
    \A t \in Threads :
        (Entered(th[t]) /\ th[t].op # "authenticate" /\ HasSpecial(th[t].arg))
        => /\ EscapedArg(th[t]) = Replaced(th[t].arg)
           /\ NoRaw(EscapedArg(th[t]))

\* a DN holding NUL, a backslash and an ordinary character was escaped
C13_Witness ==
    \E t \in Threads :
        /\ Entered(th[t]) /\ th[t].op # "authenticate"
        /\ \E i, j, k \in 1..Len(th[t].arg) :
              /\ SubSeq(th[t].arg, i, i) = NUL
              /\ SubSeq(th[t].arg, j, j) = "\\"
              /\ SubSeq(th[t].arg, k, k) = "a"

HasDn(r) == "dn" \in DOMAIN r

\* C14: on a cache miss execute returns the records of the response that have
\* a 'dn', each as (dn, attributes), in the order of the response; records
\* without 'dn' are dropped; an empty and a null response give the empty
\* sequence, and no error.
C14_MissMapsRecordsInOrder ==
    \A t \in Threads :
        (Entered(th[t]) /\ ~th[t].result.none /\ ~th[t].hit)
        => LET kept == IF th[t].resp.none THEN <<>>
                       ELSE SelectSeq(th[t].resp.val, HasDn)
           IN /\ Len(th[t].result.val) = Len(kept)
              /\ \A i \in 1..Len(kept) :
                    th[t].result.val[i] = <<kept[i].dn, kept[i].attributes>>
              /\ th[t].raised = ""

\* a response of a record without 'dn' followed by an entry was mapped
C14_Witness ==
    \E t \in Threads :
        /\ th[t].pc = "done" /\ ~th[t].hit /\ ~th[t].result.none
        /\ ~th[t].resp.none /\ Len(th[t].resp.val) = 2
        /\ ~HasDn(th[t].resp.val[1]) /\ HasDn(th[t].resp.val[2])
        /\ Len(th[t].result.val) = 1

\* C15: when query_cache is about to read the cache (line 75): if the slice
\* it sampled is greater than the last_timeslice it found, the cache holds no
\* entry of any key and last_timeslice is the sampled slice; otherwise the
\* cache and last_timeslice are as it found them.
C15_LookupFlushesWholeCache ==
    \A t \in Threads :
        (th[t].pc = "qc_get")
        => IF th[t].ts > th[t].before.last
           THEN /\ DOMAIN Q(t).cache = {}
                /\ Q(t).last_timeslice = th[t].ts
           ELSE /\ Q(t).cache = th[t].before.cache
                /\ Q(t).last_timeslice = th[t].before.last

\* a lookup in a later slice found the entries of two keys, its own and
\* another one
C15_Witness ==
    \E t \in Threads :
        /\ th[t].pc = "qc_get"
        /\ th[t].ts > th[t].before.last
        /\ th[t].key \in DOMAIN th[t].before.cache
        /\ \E k \in DOMAIN th[t].before.cache : k # th[t].key

\* the connections a call made (the constructor returned a bound connection)
\* and the ones among them it has not released: the pooled one is released by
\* leaving the with block, the direct one by unbind(); a release that raises
\* has not released the connection
Acquired(rec) ==
    {i \in DOMAIN rec.ops : rec.ops[i].op \in {"connect", "bind"} /\ rec.ops[i].ok}
ReleasedLater(rec, i) ==
    \E j \in DOMAIN rec.ops :
        /\ j > i
        /\ rec.ops[j].op = (IF rec.ops[i].op = "connect" THEN "release" ELSE "unbind")
        /\ rec.ops[j].ok
OpenConnections(rec) == {i \in Acquired(rec) : ~ReleasedLater(rec, i)}

\* C16: when authenticate has returned or raised, every connection it
\* acquired, the pooled one of the login search and the direct one of the
\* bind, is released, on every exit path, a failed release included.
C16_ConnectionsReleased ==
    \A t \in Threads :
        (th[t].op = "authenticate" /\ th[t].pc = "done")
        => OpenConnections(th[t]) = {}

\* C17: when the backend call of execute fails, execute raises instead of
\* returning and stores nothing under its key; the next execute of that key
\* goes to the backend again and is not served from the cache.
C17_FailureNotCached ==
    \A t \in Threads :
        /\ (th[t].pc = "done" /\ Entered(th[t]) /\ Failed(th[t]))
              => /\ th[t].result.none
                 /\ th[t].key \notin DOMAIN Q(t).cache
        /\ (Entered(th[t]) /\ th[t].prev.failed /\ th[t].prev.key = th[t].key)
              => /\ ~th[t].hit
                 /\ (th[t].pc = "done") => th[t].ops # <<>>

\* with caching on, an execute failed at the backend, and the next execute of
\* the same key looked into the cache, missed and got its result from the
\* backend
C17_Witness ==
    \E t \in Threads :
        /\ Entered(th[t]) /\ Q(t).cache_period # 0
        /\ th[t].prev.failed /\ th[t].prev.key = th[t].key
        /\ th[t].looked /\ th[t].pc = "done" /\ ~th[t].result.none

\* C18: for a login query with caching on, whenever authenticate returns
\* (dn, attrs), that same call made a bind with the supplied password which the
\* directory accepted, also when the login search was answered by the cache.
C18_MatchAlwaysBinds ==
    \A t \in Threads :
        (/\ th[t].pc = "done" /\ th[t].op = "authenticate" /\ ~th[t].ret.none
         /\ Q(t).cache_period # 0)
        => \E i \in DOMAIN th[t].ops :
              /\ th[t].ops[i].op = "bind" /\ th[t].ops[i].ok
              /\ th[t].ops[i].password = th[t].password

\* C19 as stated: with a clock that never goes back and concurrent execute
\* calls on one caching query, last_timeslice never decreases.
C19_LastSliceNeverDecreases ==
    [][\A n \in DOMAIN registry :
          registry'[n].last_timeslice >= registry[n].last_timeslice]_vars

\* C19 amended: every write of last_timeslice is greater than the value its
\* call compared with; last_timeslice decreases only by the write of a call
\* after another call has written it between that call's comparison and its
\* write.
C19_DecreasesOnlyByStaleWrite ==
    [][\A n \in DOMAIN registry :
          (registry'[n].last_timeslice < registry[n].last_timeslice)
          => \E t \in Threads :
                /\ th[t].pc = "qc_set" /\ th'[t].pc = "qc_get"
                /\ registry'[n].last_timeslice = th[t].ts
                /\ th[t].ts > th[t].before.last
                /\ registry[n].last_timeslice # th[t].before.last]_vars

\* last_timeslice is below the slice of a lookup that went through its
\* comparison and its write: it was decreased after that lookup
C19_Witness ==
    \E t \in Threads :
        /\ th[t].looked
        /\ Q(t).last_timeslice < th[t].ts

\* a step keeps to the realms Same relates: a registration replaces only a
\* query registered for such a realm, and a call of a Connector reads and
\* modifies only the queries registered for such a realm
Isolated(Same(_, _)) ==
    /\ \A n \in DOMAIN registry :
          (registry'[n] # registry[n])
          => IF th' = th
             THEN Same(registry'[n].owner, registry[n].owner)
             ELSE \A t \in Threads :
                     (th'[t] # th[t]) => Same(th[t].realm, registry[n].owner)
    /\ \A t \in Threads :
          (th'[t] # th[t] /\ Entered(th'[t]))
          => Same(th'[t].realm, registry[QueryIdent(th'[t])].owner)

SameValue(a, b) == a = b
SameIdentifier(a, b) == a = b \/ (~Truthy(a) /\ ~Truthy(b))

\* C20 as stated: for every two distinct realm values, the unset and the
\* empty-string realm counted as two, registering a query for one realm and
\* calling authenticate or user_groups on its Connector never reads, replaces
\* or modifies the query or the cache registered for the other.
C20_RealmsIsolated == [][Isolated(SameValue)]_vars

\* C20 amended: the same for every two realm values that are not both unset
\* or empty.
C20_RealmsIsolatedByIdentifier == [][Isolated(SameIdentifier)]_vars

\* the default realm and the realm r1 both have a groups query with a cached
\* entry, and a user_groups call on r1's Connector has just returned
C20_Witness ==
    \E t \in Threads :
        /\ th[t].pc = "done" /\ th[t].op = "user_groups"
        /\ th[t].realm = SomeStr("r1") /\ ~th[t].result.none
        /\ \A r \in {NoneStr, SomeStr("r1")} :
              LET n == _registry_identifier("ldap_groups_query", r)
              IN HasAttr(registry, n) /\ DOMAIN registry[n].cache # {}

====
